---- MODULE Spec2Model ----
(***************************************************************************)
(* Model of app.py: a single-profile portfolio backend (Flask handlers     *)
(* over four SQLite tables).  Every handler is one action; the store is    *)
(* the four tables; `last` records the request just served and its         *)
(* response so that properties can relate requests, responses and store.   *)
(*                                                                         *)
(* JSON values are strings or null.  A string is a sequence of one-char    *)
(* strings, so that LIKE matching can be computed character by character.  *)
(***************************************************************************)
EXTENDS Integers, Sequences, FiniteSets, TLC

VARIABLES
    profiles,   \* table profile: set of rows [id, name, email, education]
    skills,     \* table skill: set of rows [id, name, level, profile_id]
    projects,   \* table project: set of rows [id, title, description, profile_id]
    links,      \* table link: set of rows [id, type, url, profile_id]
    last,       \* the request served last and its response
    born,       \* history: id of each stored skill -> serial number of its insertion
    ticks,      \* history: number of skills inserted so far
    issued,     \* history: skill ids returned by a creation so far
    deleted,    \* history: skill ids removed by a successful DELETE so far
    gone,       \* history: skill ids whose latest event is a successful DELETE
    pc,         \* interleaved create_profile: position of each caller
    local,      \* interleaved create_profile: each caller's data and existing
    resp        \* interleaved create_profile: each caller's response

vars == <<profiles, skills, projects, links, last, born, ticks, issued, deleted, gone,
          pc, local, resp>>

store == <<profiles, skills, projects, links>>
hist == <<born, ticks, issued, deleted, gone>>
conc == <<pc, local, resp>>

\* ---------------------------------------------------------------- bounds

MaxSkillAdds == 1
MaxProjectAdds == 1
MaxTopAdds == 7
MaxSearchAdds == 2

\* ---------------------------------------------------------------- JSON values

Null == [isNull |-> TRUE, s |-> <<>>]
Str(s) == [isNull |-> FALSE, s |-> s]

\* Python truthiness of a value read from the body: None and '' are falsy.
Truthy(v) == ~v.isNull /\ Len(v.s) > 0

\* request.get_json(): None (JSON null) or a dict.
NoneBody == [isNone |-> TRUE, d |-> <<>>]
Dict(f) == [isNone |-> FALSE, d |-> f]

\* `not data`: None and the empty dict are falsy.
NotData(data) == data.isNone \/ DOMAIN data.d = {}

\* data.get(k) and data.get(k, default)
Get(data, k) == IF k \in DOMAIN data.d THEN data.d[k] ELSE Null
GetDefault(data, k, default) == IF k \in DOMAIN data.d THEN data.d[k] ELSE default

\* All dicts over the given keys with values from V (any subset of keys present).
Dicts(keys, V) == UNION {[K -> V] : K \in SUBSET keys}
Bodies(keys, V) == {NoneBody} \cup {Dict(f) : f \in Dicts(keys, V)}

\* ---------------------------------------------------------------- tables

Ids(table) == {r.id : r \in table}

Max(S) == CHOOSE x \in S : \A y \in S : y <= x
Min(S) == CHOOSE x \in S : \A y \in S : x <= y

\* Mutant of NextId: the smallest id no row uses (gaps are filled).
NextId_FirstFree(table) ==
    Min({i \in 1..(Cardinality(table) + 1) : i \notin Ids(table)})

\* INTEGER PRIMARY KEY without AUTOINCREMENT: SQLite assigns max(rowid) + 1.
NextId(table) == IF table = {} THEN 1 ELSE Max(Ids(table)) + 1

\* Rows of a table in rowid order, as an unordered SELECT scans them.
RECURSIVE Scan(_)
Scan(table) ==
    IF table = {} THEN <<>>
    ELSE LET r == CHOOSE x \in table : x.id = Min(Ids(table))
         IN <<r>> \o Scan(table \ {r})

Limit(rows, n) == SubSeq(rows, 1, IF Len(rows) < n THEN Len(rows) ELSE n)

Range(seq) == {seq[i] : i \in DOMAIN seq}

\* Model.query.first(): the first row of the scan, or no row.
HasRow(table) == table # {}
First(table) == Head(Scan(table))

\* Model.query.get(id)
HasId(table, id) == id \in Ids(table)
GetRow(table, id) == CHOOSE r \in table : r.id = id

\* to_dict of each model (timestamps left out)
ProfileDict(p) == [id |-> p.id, name |-> p.name, email |-> p.email, education |-> p.education]
SkillDict(s) == [id |-> s.id, name |-> s.name, level |-> s.level]
ProjectDict(p) == [id |-> p.id, title |-> p.title, description |-> p.description]
LinkDict(l) == [id |-> l.id, type |-> l.type, url |-> l.url]

\* [r.to_dict() for r in rows]
SkillDicts(rows) == [i \in 1..Len(rows) |-> SkillDict(rows[i])]
ProjectDicts(rows) == [i \in 1..Len(rows) |-> ProjectDict(rows[i])]
LinkDicts(rows) == [i \in 1..Len(rows) |-> LinkDict(rows[i])]

\* Model.query.filter_by(profile_id=pid).all()
FilterByProfile(table, pid) ==
    LET Keep(r) == r.profile_id = pid IN SelectSeq(Scan(table), Keep)

Message(m) == [message |-> m]
Response(op, arg, status, body) == [op |-> op, arg |-> arg, status |-> status, body |-> body]

\* ---------------------------------------------------------------- responses

NoArg == "-"
NoProfileFound == Message("No profile found")
Intermediate == Str(<<"I", "n", "t", "e", "r", "m", "e", "d", "i", "a", "t", "e">>)

\* ---------------------------------------------------------------- GET /api/health

health ==
    /\ last' = Response("health", NoArg, 200, [status |-> "ok", message |-> "API is running"])
    /\ UNCHANGED <<store, hist, conc>>

\* ---------------------------------------------------------------- GET /api/profile

GetProfileData(P, S, J, L) ==
    LET profile == First(P)
    IN [profile |-> ProfileDict(profile),
        skills |-> SkillDicts(FilterByProfile(S, profile.id)),
        projects |-> ProjectDicts(FilterByProfile(J, profile.id)),
        links |-> LinkDicts(FilterByProfile(L, profile.id))]

get_profile ==
    /\ last' = IF HasRow(profiles)
                 THEN Response("get_profile", NoArg, 200,
                               GetProfileData(profiles, skills, projects, links))
                 ELSE Response("get_profile", NoArg, 404, NoProfileFound)
    /\ UNCHANGED <<store, hist, conc>>

\* ---------------------------------------------------------------- POST /api/profile

\* Mutant of CreateInvalid: the email is not checked.
CreateInvalid_NameOnly(data) == NotData(data) \/ ~Truthy(Get(data, "name"))

\* line 113: not data or not data.get('name') or not data.get('email')
CreateInvalid(data) ==
    NotData(data) \/ ~Truthy(Get(data, "name")) \/ ~Truthy(Get(data, "email"))

\* line 117: existing = Profile.query.first(), the row as loaded by this request
NoRow == [found |-> FALSE, row |-> [id |-> 0]]
Lookup(P) == IF HasRow(P) THEN [found |-> TRUE, row |-> First(P)] ELSE NoRow

\* The UPDATE a commit flushes for a loaded row: the columns whose new value
\* differs from the loaded one are written to the row with the loaded id.
Flush(P, loaded, new) ==
    {IF r.id # loaded.id THEN r
     ELSE [id |-> r.id,
           name |-> IF new.name # loaded.name THEN new.name ELSE r.name,
           email |-> IF new.email # loaded.email THEN new.email ELSE r.email,
           education |-> IF new.education # loaded.education THEN new.education
                         ELSE r.education] : r \in P}

\* Mutant of CreateFields: education read without the '' default.
CreateFields_NoDefault(data) ==
    [name |-> Get(data, "name"),
     email |-> Get(data, "email"),
     education |-> Get(data, "education")]

\* lines 120-122 and 127-131: the field values the request assigns
CreateFields(data) ==
    [name |-> Get(data, "name"),
     email |-> Get(data, "email"),
     education |-> GetDefault(data, "education", Str(<<>>))]

\* Mutant of CreateCommit: no branch on existing, every valid request inserts.
CreateCommit_AlwaysInsert(P, data, existing) ==
    LET id == NextId(P)
    IN [table |-> P \cup {[id |-> id, name |-> Get(data, "name"),
                            email |-> Get(data, "email"),
                            education |-> GetDefault(data, "education", Str(<<>>))]},
        status |-> 201, id |-> id]

\* Mutant of CreateCommit: the existence check is made again at commit time,
\* as it would be under a lock held across lookup and commit.
CreateCommit_Relookup(P, data, existing) ==
    LET now == Lookup(P)
        id == NextId(P)
    IN IF now.found
       THEN [table |-> Flush(P, now.row, [name |-> Get(data, "name"),
                                           email |-> Get(data, "email"),
                                           education |-> GetDefault(data, "education", Str(<<>>))]),
             status |-> 200, id |-> now.row.id]
       ELSE [table |-> P \cup {[id |-> id, name |-> Get(data, "name"),
                                 email |-> Get(data, "email"),
                                 education |-> GetDefault(data, "education", Str(<<>>))]},
             status |-> 201, id |-> id]

\* lines 118-136: update the loaded row (200) or insert a new one (201)
CreateCommit(P, data, existing) ==
    LET f == CreateFields(data)
    IN IF existing.found
       THEN LET P2 == Flush(P, existing.row, f)
            IN [table |-> P2, status |-> 200, id |-> existing.row.id]
       ELSE LET id == NextId(P)
            IN [table |-> P \cup {[id |-> id, name |-> f.name, email |-> f.email,
                                    education |-> f.education]},
                status |-> 201, id |-> id]

create_profile(data) ==
    IF CreateInvalid(data)
    THEN /\ last' = Response("create_profile", data, 400,
                             Message("Name and email are required"))
         /\ UNCHANGED <<store, hist, conc>>
    ELSE LET c == CreateCommit(profiles, data, Lookup(profiles))
         IN /\ profiles' = c.table
            /\ last' = Response("create_profile", data, c.status,
                                ProfileDict(GetRow(c.table, c.id)))
            /\ UNCHANGED <<skills, projects, links, hist, conc>>

\* ---------------------------------------------------------------- PUT /api/profile

\* lines 148-150: data.get(k, profile.k) for each field
UpdateFields(data, profile) ==
    [name |-> GetDefault(data, "name", profile.name),
     email |-> GetDefault(data, "email", profile.email),
     education |-> GetDefault(data, "education", profile.education)]

\* name and email are nullable=False: the commit raises IntegrityError on None
NotNullViolated(f) == f.name.isNull \/ f.email.isNull

update_profile(data) ==
    IF ~HasRow(profiles)
    THEN /\ last' = Response("update_profile", data, 404, NoProfileFound)
         /\ UNCHANGED <<store, hist, conc>>
    ELSE IF data.isNone
    THEN \* data.get on None raises AttributeError; the handler has no try
         /\ last' = Response("update_profile", data, 500, Message("AttributeError"))
         /\ UNCHANGED <<store, hist, conc>>
    ELSE LET profile == First(profiles)
             f == UpdateFields(data, profile)
         IN IF NotNullViolated(f)
            THEN /\ last' = Response("update_profile", data, 500, Message("IntegrityError"))
                 /\ UNCHANGED <<store, hist, conc>>
            ELSE /\ profiles' = Flush(profiles, profile, f)
                 /\ last' = Response("update_profile", data, 200,
                                     ProfileDict(GetRow(profiles', profile.id)))
                 /\ UNCHANGED <<skills, projects, links, hist, conc>>

\* ---------------------------------------------------------------- GET /api/skills

ListSkills(P, S) == SkillDicts(FilterByProfile(S, First(P).id))

get_skills ==
    /\ last' = IF HasRow(profiles)
                 THEN Response("get_skills", NoArg, 200, ListSkills(profiles, skills))
                 ELSE Response("get_skills", NoArg, 404, NoProfileFound)
    /\ UNCHANGED <<store, hist, conc>>

\* ---------------------------------------------------------------- POST /api/skills

add_skill(data) ==
    IF ~HasRow(profiles)
    THEN /\ last' = Response("add_skill", data, 400, Message("Please create a profile first"))
         /\ UNCHANGED <<store, hist, conc>>
    ELSE IF NotData(data) \/ ~Truthy(Get(data, "name"))
    THEN /\ last' = Response("add_skill", data, 400, Message("Skill name is required"))
         /\ UNCHANGED <<store, hist, conc>>
    ELSE LET skill == [id |-> NextId(skills),
                       name |-> Get(data, "name"),
                       level |-> GetDefault(data, "level", Intermediate),
                       profile_id |-> First(profiles).id]
         IN /\ skills' = skills \cup {skill}
            /\ last' = Response("add_skill", data, 201, SkillDict(skill))
            /\ ticks' = ticks + 1
            /\ born' = [i \in Ids(skills') |-> IF i = skill.id THEN ticks' ELSE born[i]]
            /\ issued' = issued \cup {skill.id}
            /\ gone' = gone \ {skill.id}
            /\ UNCHANGED <<profiles, projects, links, deleted, conc>>

\* Mutant of delete_skill: no existence check, the request always answers 200.
delete_skill_NoCheck(skill_id) ==
    /\ skills' = {r \in skills : r.id # skill_id}
    /\ last' = Response("delete_skill", skill_id, 200, Message("Skill deleted"))
    /\ born' = [i \in Ids(skills') |-> born[i]]
    /\ deleted' = deleted \cup {skill_id}
    /\ gone' = gone \cup {skill_id}
    /\ UNCHANGED <<profiles, projects, links, ticks, issued, conc>>

\* Mutant of delete_skill: the rows are selected by profile_id instead of id.
delete_skill_WrongColumn(skill_id) ==
    IF \A r \in skills : r.profile_id # skill_id
    THEN /\ last' = Response("delete_skill", skill_id, 404, Message("Skill not found"))
         /\ UNCHANGED <<store, hist, conc>>
    ELSE /\ skills' = {r \in skills : r.profile_id # skill_id}
         /\ last' = Response("delete_skill", skill_id, 200, Message("Skill deleted"))
         /\ born' = [i \in Ids(skills') |-> born[i]]
         /\ deleted' = deleted \cup {skill_id}
         /\ gone' = gone \cup {skill_id}
         /\ UNCHANGED <<profiles, projects, links, ticks, issued, conc>>

\* ---------------------------------------------------------------- DELETE /api/skills/<id>

delete_skill(skill_id) ==
    IF ~HasId(skills, skill_id)
    THEN /\ last' = Response("delete_skill", skill_id, 404, Message("Skill not found"))
         /\ UNCHANGED <<store, hist, conc>>
    ELSE /\ skills' = skills \ {GetRow(skills, skill_id)}
         /\ last' = Response("delete_skill", skill_id, 200, Message("Skill deleted"))
         /\ born' = [i \in Ids(skills') |-> born[i]]
         /\ deleted' = deleted \cup {skill_id}
         /\ gone' = gone \cup {skill_id}
         /\ UNCHANGED <<profiles, projects, links, ticks, issued, conc>>

\* ---------------------------------------------------------------- GET /api/projects

ListProjects(P, J) == ProjectDicts(FilterByProfile(J, First(P).id))

get_projects ==
    /\ last' = IF HasRow(profiles)
                 THEN Response("get_projects", NoArg, 200, ListProjects(profiles, projects))
                 ELSE Response("get_projects", NoArg, 404, NoProfileFound)
    /\ UNCHANGED <<store, hist, conc>>

\* ---------------------------------------------------------------- POST /api/projects

add_project(data) ==
    IF ~HasRow(profiles)
    THEN /\ last' = Response("add_project", data, 400, Message("Please create a profile first"))
         /\ UNCHANGED <<store, hist, conc>>
    ELSE IF NotData(data) \/ ~Truthy(Get(data, "title"))
    THEN /\ last' = Response("add_project", data, 400, Message("Project title is required"))
         /\ UNCHANGED <<store, hist, conc>>
    ELSE LET project == [id |-> NextId(projects),
                         title |-> Get(data, "title"),
                         description |-> GetDefault(data, "description", Str(<<>>)),
                         profile_id |-> First(profiles).id]
         IN /\ projects' = projects \cup {project}
            /\ last' = Response("add_project", data, 201, ProjectDict(project))
            /\ UNCHANGED <<profiles, skills, links, hist, conc>>

\* ---------------------------------------------------------------- DELETE /api/projects/<id>

delete_project(project_id) ==
    IF ~HasId(projects, project_id)
    THEN /\ last' = Response("delete_project", project_id, 404, Message("Project not found"))
         /\ UNCHANGED <<store, hist, conc>>
    ELSE /\ projects' = projects \ {GetRow(projects, project_id)}
         /\ last' = Response("delete_project", project_id, 200, Message("Project deleted"))
         /\ UNCHANGED <<profiles, skills, links, hist, conc>>

\* ---------------------------------------------------------------- GET /api/skills/top

TopLimit == 5

TopSkills(P, S) == SkillDicts(Limit(FilterByProfile(S, First(P).id), TopLimit))

get_top_skills ==
    /\ last' = IF HasRow(profiles)
                 THEN Response("get_top_skills", NoArg, 200, TopSkills(profiles, skills))
                 ELSE Response("get_top_skills", NoArg, 404, NoProfileFound)
    /\ UNCHANGED <<store, hist, conc>>

\* ---------------------------------------------------------------- GET /api/search

\* lower() as SQLite applies it: ASCII letters only.
Lower(c) == IF c = "G" THEN "g" ELSE IF c = "O" THEN "o" ELSE c
LowerStr(s) == [i \in 1..Len(s) |-> Lower(s[i])]

\* SQL LIKE: % matches any run of characters, _ any one character.
RECURSIVE Like(_, _)
Like(s, pat) ==
    IF pat = <<>> THEN s = <<>>
    ELSE IF Head(pat) = "%"
         THEN Like(s, Tail(pat)) \/ (s # <<>> /\ Like(Tail(s), pat))
    ELSE IF Head(pat) = "_"
         THEN s # <<>> /\ Like(Tail(s), Tail(pat))
    ELSE s # <<>> /\ Head(s) = Head(pat) /\ Like(Tail(s), Tail(pat))

\* column.ilike(pattern) on SQLite: lower(column) LIKE lower(pattern); NULL never matches
ILike(v, pat) == ~v.isNull /\ Like(LowerStr(v.s), LowerStr(pat))

\* f'%{query}%'
Pattern(query) == <<"%">> \o query \o <<"%">>

SearchSkills(P, S, query) ==
    LET Keep(r) == ILike(r.name, Pattern(query)) /\ r.profile_id = First(P).id
    IN SkillDicts(SelectSeq(Scan(S), Keep))

SearchProjects(P, J, query) ==
    LET Keep(r) == ILike(r.title, Pattern(query)) /\ r.profile_id = First(P).id
    IN ProjectDicts(SelectSeq(Scan(J), Keep))

search(query) ==
    /\ last' = IF HasRow(profiles)
                 THEN Response("search", query, 200,
                               [skills |-> SearchSkills(profiles, skills, query),
                                projects |-> SearchProjects(profiles, projects, query)])
                 ELSE Response("search", query, 404, NoProfileFound)
    /\ UNCHANGED <<store, hist, conc>>

\* ---------------------------------------------------------------- interleaved POST /api/profile
\* Two requests served by different threads: each runs lines 111-117 (parse,
\* validate, look up), then lines 118-136 (assign or insert, commit).  SQLite
\* serialises the commits; nothing in the handler holds a lock across the two.

Callers == {"A", "B"}

Begin(c, data) ==
    /\ pc[c] = "idle"
    /\ IF CreateInvalid(data)
       THEN /\ resp' = [resp EXCEPT ![c] = [status |-> 400, id |-> 0]]
            /\ pc' = [pc EXCEPT ![c] = "done"]
            /\ local' = [local EXCEPT ![c] = [data |-> data, existing |-> NoRow]]
       ELSE /\ local' = [local EXCEPT ![c] = [data |-> data, existing |-> Lookup(profiles)]]
            /\ pc' = [pc EXCEPT ![c] = "checked"]
            /\ UNCHANGED resp
    /\ UNCHANGED <<store, hist, last>>

Finish(c) ==
    /\ pc[c] = "checked"
    /\ LET r == CreateCommit(profiles, local[c].data, local[c].existing)
       IN /\ profiles' = r.table
          /\ resp' = [resp EXCEPT ![c] = [status |-> r.status, id |-> r.id]]
    /\ pc' = [pc EXCEPT ![c] = "done"]
    /\ UNCHANGED <<skills, projects, links, hist, last, local>>

\* The caller's next request.
Again(c) ==
    /\ pc[c] = "done"
    /\ pc' = [pc EXCEPT ![c] = "idle"]
    /\ UNCHANGED <<store, hist, last, local, resp>>

\* ---------------------------------------------------------------- inputs

\* Profile bodies: each key absent or present with one of its values.
NameValues == {Null, Str(<<>>), Str(<<"a">>), Str(<<"b">>)}
EmailValues == {Str(<<>>), Str(<<"a">>)}
EducationValues == {Null, Str(<<"b">>)}
ProfileDicts ==
    {f \in Dicts({"name", "email", "education"}, NameValues \cup EducationValues) :
        /\ "email" \in DOMAIN f => f["email"] \in EmailValues
        /\ "education" \in DOMAIN f => f["education"] \in EducationValues}
ProfileBodies == {NoneBody} \cup {Dict(f) : f \in ProfileDicts}

SkillBodies == {NoneBody, Dict([name |-> Str(<<"g">>)])}
ProjectBodies == {NoneBody, Dict([title |-> Str(<<"g">>)])}
Queries == {<<"g">>}

\* One valid profile, skills of one name: the store grows past TopLimit.
TopProfileBodies == {Dict([name |-> Str(<<"a">>), email |-> Str(<<"b">>)])}
TopSkillBodies == {Dict([level |-> Str(<<"g">>)]), Dict([name |-> Str(<<"g">>)])}

\* Names, titles and queries over letters of both cases and the LIKE wildcards.
SearchNames == {<<"G", "o">>, <<"o", "_">>, <<"%">>}
SearchSkillBodies == {Dict([name |-> Str(n)]) : n \in SearchNames}
SearchProjectBodies == {Dict([title |-> Str(n)]) : n \in SearchNames}
SearchQueries == {<<>>, <<"G", "O">>, <<"_">>, <<"%">>, <<"o", "_">>, <<"g", "g">>}

ConcBodies ==
    {NoneBody,
     Dict([name |-> Str(<<"a">>), email |-> Str(<<"a">>)]),
     Dict([name |-> Str(<<"b">>), email |-> Str(<<"a">>), education |-> Str(<<"b">>)])}

\* ---------------------------------------------------------------- specifications

Init ==
    /\ profiles = {}
    /\ skills = {}
    /\ projects = {}
    /\ links = {}
    /\ last = Response("start", NoArg, 0, NoArg)
    /\ born = <<>>
    /\ ticks = 0
    /\ issued = {}
    /\ deleted = {}
    /\ gone = {}
    /\ pc = [c \in Callers |-> "idle"]
    /\ local = [c \in Callers |-> [data |-> NoneBody, existing |-> NoRow]]
    /\ resp = [c \in Callers |-> [status |-> 0, id |-> 0]]

\* Requests processed one at a time, drawn from the given inputs.
Serve(PB, SB, JB, Q, maxSkillAdds, maxProjectAdds) ==
    \/ health
    \/ get_profile
    \/ \E data \in PB : create_profile(data)
    \/ \E data \in PB : update_profile(data)
    \/ get_skills
    \/ ticks < maxSkillAdds /\ \E data \in SB : add_skill(data)
    \/ \E skill_id \in 1..(maxSkillAdds + 1) : delete_skill(skill_id)
    \/ get_projects
    \/ Cardinality(projects) < maxProjectAdds /\ \E data \in JB : add_project(data)
    \/ \E project_id \in 1..(maxProjectAdds + 1) : delete_project(project_id)
    \/ get_top_skills
    \/ \E query \in Q : search(query)

Next == Serve(ProfileBodies, SkillBodies, ProjectBodies, Queries, MaxSkillAdds, MaxProjectAdds)
Spec == Init /\ [][Next]_vars

NextTop == Serve(TopProfileBodies, TopSkillBodies, {NoneBody}, Queries, MaxTopAdds, MaxProjectAdds)
SpecTop == Init /\ [][NextTop]_vars

NextSearch ==
    Serve(TopProfileBodies, SearchSkillBodies, SearchProjectBodies, SearchQueries,
          MaxSearchAdds, MaxProjectAdds)
SpecSearch == Init /\ [][NextSearch]_vars

NextConc ==
    \E c \in Callers :
        \/ \E data \in ConcBodies : Begin(c, data)
        \/ Finish(c)
        \/ Again(c)
SpecConc == Init /\ [][NextConc]_vars

\* ================================================================ properties

\* What a claim calls a valid profile body: a dict with non-empty name and email.
Present(data, k) == ~data.isNone /\ k \in DOMAIN data.d
NonEmpty(data, k) == Present(data, k) /\ ~data.d[k].isNull /\ data.d[k].s # <<>>
ValidProfileBody(data) == NonEmpty(data, "name") /\ NonEmpty(data, "email")

\* C1: with requests served one at a time from an empty store, the profile
\* table never holds more than one row.
C1_AtMostOneProfile == Cardinality(profiles) <= 1

\* A creation attempt answered 200: the existing row was reused.
C1_Witness ==
    /\ last.op = "create_profile"
    /\ last.status = 200
    /\ Cardinality(profiles) = 1

\* One step serving a valid POST /api/profile.
C2_Step ==
    (last'.op = "create_profile" /\ ValidProfileBody(last'.arg)) =>
        LET data == last'.arg
        IN /\ last'.status = IF profiles = {} THEN 201 ELSE 200
           /\ Cardinality(profiles') = 1
           /\ \A p \in profiles' :
                /\ p.name = data.d["name"]
                /\ p.email = data.d["email"]
                /\ p.education = IF Present(data, "education") THEN data.d["education"]
                                 ELSE Str(<<>>)
                /\ last'.body = ProfileDict(p)
           /\ profiles # {} => Ids(profiles') = Ids(profiles)

\* C2: a valid POST /api/profile answers 201 when no profile existed and 200
\* otherwise; afterwards the one stored profile has the request's name and
\* email, its education ('' when the key is omitted), the id it had before,
\* and the response body is that profile.
C2_UpsertByOverwrite == [][C2_Step]_vars

\* A later POST without education has overwritten the name and reset education.
C2_Witness ==
    /\ last.op = "create_profile"
    /\ last.status = 200
    /\ ~Present(last.arg, "education")
    /\ \E p \in profiles : p.name = Str(<<"b">>) /\ p.education = Str(<<>>)

\* C3: the stored profile, if any, has a non-empty name and a non-empty email.
C3_NameAndEmailNonEmpty ==
    \A p \in profiles : Truthy(p.name) /\ Truthy(p.email)

\* One step serving a POST /api/profile that is not valid.
C4_Step ==
    (last'.op = "create_profile" /\ ~ValidProfileBody(last'.arg)) =>
        /\ last'.status = 400
        /\ store' = store

C5_Step ==
    last'.op = "update_profile" =>
        IF profiles = {}
        THEN last'.status = 404 /\ store' = store
        ELSE /\ last'.status = 200
             /\ <<skills, projects, links>>' = <<skills, projects, links>>
             /\ Cardinality(profiles') = 1
             /\ LET p == First(profiles)
                    q == First(profiles')
                    data == last'.arg
                    Field(k, old) == IF Present(data, k) THEN data.d[k] ELSE old
                IN /\ q.id = p.id
                   /\ q.name = Field("name", p.name)
                   /\ q.email = Field("email", p.email)
                   /\ q.education = Field("education", p.education)

\* C5: PUT /api/profile answers 404 and changes nothing when no profile
\* exists; otherwise it answers 200, sets the fields present in the body,
\* and keeps the absent fields, the id and the other tables.
C5_PartialUpdate == [][C5_Step]_vars

\* One step serving DELETE of an id never issued or deleted at some time before.
C6_Original_Step ==
    (last'.op = "delete_skill" /\ (last'.arg \notin issued \/ last'.arg \in deleted)) =>
        /\ last'.status = 404
        /\ store' = store

\* C6 as stated: DELETE /api/skills/<id> answers 404 and changes nothing
\* whenever the id was never returned by a creation or was deleted by an
\* earlier successful DELETE, so a deleted id is never accepted again.
C6_DeletedIdNeverAccepted == [][C6_Original_Step]_vars

\* One step serving DELETE of an id never issued or deleted and not reissued.
C6_Step ==
    (last'.op = "delete_skill" /\ (last'.arg \notin issued \/ last'.arg \in gone)) =>
        /\ last'.status = 404
        /\ store' = store

\* C6 amended: DELETE /api/skills/<id> answers 404 and changes nothing
\* whenever the id was never returned by a creation, or was deleted by a
\* successful DELETE and not returned by a creation since.
C6_UnknownOrGoneIdRejected == [][C6_Step]_vars

\* A second DELETE of a deleted id answered 404 while other skills are stored.
C6_Witness ==
    /\ last.op = "delete_skill"
    /\ last.status = 404
    /\ last.arg \in gone
    /\ skills # {}

\* The skills stored for the current profile.
OwnSkills == {s \in skills : s.profile_id = First(profiles).id}

\* C7: with a profile present, GET /api/skills/top returns min(5, n) of the n
\* skills stored for the profile: the earliest inserted ones, in insertion order.
C7_TopSkills ==
    (last.op = "get_top_skills" /\ last.status = 200) =>
        LET top == last.body
            n == Cardinality(OwnSkills)
            shown == {top[i].id : i \in DOMAIN top}
        IN /\ Len(top) = IF n < 5 THEN n ELSE 5
           /\ \A i \in DOMAIN top : \E s \in OwnSkills : top[i] = SkillDict(s)
           /\ \A i, j \in DOMAIN top : i < j => born[top[i].id] < born[top[j].id]
           /\ \A s \in OwnSkills :
                s.id \notin shown => \A i \in DOMAIN top : born[top[i].id] < born[s.id]

\* More than five skills stored after some were deleted and an id was reissued.
C7_Witness ==
    /\ last.op = "get_top_skills"
    /\ last.status = 200
    /\ Cardinality(skills) > 5
    /\ Len(last.body) = 5
    /\ Ids(skills) \cap deleted # {}

\* Skill s is in the lists of GET /api/skills and GET /api/profile.
Listed(s, P, S, J, L) ==
    /\ HasRow(P)
    /\ SkillDict(s) \in Range(ListSkills(P, S))
    /\ SkillDict(s) \in Range(GetProfileData(P, S, J, L).skills)

\* One step, seen from the skills stored before it and after it.
C8_Step ==
    /\ \A s \in skills :
          \/ /\ s \in skills'
             /\ born'[s.id] = born[s.id]
          \/ /\ last'.op = "delete_skill"
             /\ last'.arg = s.id
             /\ last'.status = 200
             /\ s.id \notin Ids(skills')
    /\ \A s \in skills' :
          /\ Listed(s, profiles', skills', projects', links')
          /\ \/ s \in skills /\ born'[s.id] = born[s.id]
             \/ /\ last'.op = "add_skill"
                /\ last'.status = 201
                /\ last'.body = SkillDict(s)
                /\ born'[s.id] = ticks'
                /\ ticks' = ticks + 1

Contains(s, q) ==
    \E i \in 0..(Len(s) - Len(q)) : SubSeq(s, i + 1, i + Len(q)) = q
ContainsCI(v, q) == ~v.isNull /\ Contains(LowerStr(v.s), LowerStr(q))

\* C9: GET /api/search?q= returns exactly the profile's skills whose name, and
\* the projects whose title, contain q as a case-insensitive substring, every
\* character of q taken literally.
C9_LiteralSubstring ==
    (last.op = "search" /\ last.status = 200) =>
        LET pid == First(profiles).id
            q == last.arg
        IN /\ Range(last.body.skills) =
                {SkillDict(s) : s \in {x \in skills : x.profile_id = pid /\ ContainsCI(x.name, q)}}
           /\ Range(last.body.projects) =
                {ProjectDict(s) : s \in {x \in projects : x.profile_id = pid /\ ContainsCI(x.title, q)}}

\* C10: when two POST /api/profile requests both look up the profile before
\* either commits and find none, both insert and answer 201, and the table
\* holds a row for each.
C10_BothInsert ==
    \A c1, c2 \in Callers :
        (/\ c1 # c2
         /\ pc[c1] = "done" /\ pc[c2] = "done"
         /\ resp[c1].status # 400 /\ resp[c2].status # 400
         /\ ~local[c1].existing.found /\ ~local[c2].existing.found)
        => /\ resp[c1].status = 201 /\ resp[c2].status = 201
           /\ resp[c1].id # resp[c2].id
           /\ {resp[c1].id, resp[c2].id} \subseteq Ids(profiles)
           /\ Cardinality(profiles) >= 2

\* Both callers answered 201 and the table holds two profiles.
C10_Witness ==
    /\ \A c \in Callers : pc[c] = "done" /\ resp[c].status = 201
    /\ Cardinality(profiles) = 2

====
